---- MODULE Spec2Model ----
(***************************************************************************)
(* Model of the lab agent: the status relay loop of service_script.main,   *)
(* the retry wrapper retry_run_operation, and the operation tracker of     *)
(* caldera/py_caldera.py (run_operation, check_operation_run and the       *)
(* module-level list waiting_responses).                                   *)
(*                                                                         *)
(* The HTTP transport is the environment.  A transport call either raises  *)
(* (connection error) or returns a value; the value of a caldera call is   *)
(* read the way py_caldera.py reads it: tested for truth and subscripted   *)
(* as the decoded object (op['id'], checkup['state']).                     *)
(***************************************************************************)
EXTENDS Integers, Sequences, FiniteSets, TLC

\* ------------------------------------------------------------------ bounds
MaxActions == 2     \* longest action list of one plan
MaxOps == 3         \* operations the automation API creates in one run
MaxRetries == 3     \* largest retries argument tried on the retry wrapper

\* -------------------------------------------------------- program constants
DefaultRetries == 3             \* retry_run_operation(..., retries=3, ...)
CheckOperationRunParams == 2    \* check_operation_run(operation_id, run_type)
MainCheckArgs == 1              \* main: check_operation_run(operation_id)

Absent == "<absent>"            \* a key the mapping does not hold (.get -> None)
NoId == 0                       \* an absent operation_id
Ids == 1..MaxOps
States == {"running", "finished", "cancelled"}
session_id == "s1"

VARIABLES
    pc,                 \* position of main(): probe, plan, dispatch, retry_call,
                        \* retry_sleep, retry_done, sleep, exited
    interrupted,        \* SIGINT was delivered (signal_handler ran)
    actions,            \* response_data['actions'] of this tick
    idx,                \* position of the for loop in actions (1-based)
    probe_status,       \* this tick's probe: "none", "200", "500", "error"
    plan_fetches,       \* POST /coin requests of this tick
    visited,            \* positions of actions the for loop reached this tick
    creates,            \* POST /operations bodies sent this tick
    relays,             \* POST /caldera payloads sent this tick
    polls,              \* check_operation_run bodies run this tick: id and result
    created,            \* operations the automation API created this tick
    caught,             \* the handler of line 185 caught an exception this tick
    retries,            \* retry_run_operation: retries argument
    attempt,            \* retry_run_operation: loop variable
    sleeps,             \* retry_run_operation: time.sleep(delay) calls
    calls,              \* retry_run_operation: run_operation calls
    retry_ret,          \* retry_run_operation: what the call produced
    script,             \* outcomes of a stubbed creation function, per call
    waiting_responses,  \* py_caldera.waiting_responses
    next_id,            \* next operation id the automation API hands out
    report_log,         \* ids of the report requests of the last tracker call
    new_operation,      \* new_operation.json
    complete_operation, \* complete_operation.json
    last_poll,          \* the last check_operation_run call of the tracker run
    last_relayed,       \* per operation id, the status of the last relay posted
    report_json,        \* normalize_report_json: its argument
    normalized          \* normalize_report_json: what the call produced

loop_vars == <<pc, interrupted, actions, idx>>
tick_vars == <<probe_status, plan_fetches, visited, creates, relays, polls, created,
               caught>>
retry_vars == <<retries, attempt, sleeps, calls, retry_ret, script>>
tracker_vars == <<waiting_responses, next_id, report_log, new_operation,
                  complete_operation, last_poll>>
normalize_vars == <<report_json, normalized>>
vars == <<loop_vars, tick_vars, retry_vars, tracker_vars, last_relayed, normalize_vars>>

\* ------------------------------------------------------------- action items
Item(s, t, adv, g, name, id) ==
    [service |-> s, task |-> t, adversary |-> adv, group |-> g,
     operation_name |-> name, operation_id |-> id]

RunOp1 == Item("caldera", "run_operation", "adv-1", Absent, "Op1", NoId)
RunOp2 == Item("caldera", "run_operation", "adv-2", "red", "Op2", NoId)
RunNoAdversary == Item("caldera", "run_operation", Absent, Absent, "Op1", NoId)
RunNoName == Item("caldera", "run_operation", "adv-1", Absent, Absent, NoId)
CheckOp1 == Item("caldera", "check_operation", Absent, Absent, "Op1", 1)
CheckOp2 == Item("caldera", "check_operation", Absent, Absent, Absent, 2)
CheckNoId == Item("caldera", "check_operation", Absent, Absent, "Op1", NoId)
NoService == Item(Absent, "run_operation", "adv-1", Absent, "Op1", NoId)
NoTask == Item("caldera", Absent, "adv-1", Absent, "Op1", 1)
OtherTask == Item("caldera", "delete_operation", Absent, Absent, Absent, 1)
OtherService == Item("splunk", Absent, Absent, Absent, Absent, NoId)

ActionItems == {RunOp1, RunOp2, RunNoAdversary, RunNoName, CheckOp1, CheckOp2,
                CheckNoId, NoService, NoTask, OtherTask, OtherService}

RECURSIVE SeqsUpTo(_, _)
SeqsUpTo(S, n) ==
    IF n = 0 THEN {<<>>}
    ELSE LET shorter == SeqsUpTo(S, n - 1)
         IN shorter \cup {Append(q, x) : q \in {r \in shorter : Len(r) = n - 1}, x \in S}

Plans == SeqsUpTo(ActionItems, MaxActions)

\* --------------------------------------------------------- transport values
\* What a transport call hands back: it raised, a value that tests false, the
\* operation object of POST /operations, the status object of GET /operations/{id}.
Raise == [kind |-> "raise", id |-> NoId, state |-> ""]
None == [kind |-> "None", id |-> NoId, state |-> ""]
Handle(i) == [kind |-> "handle", id |-> i, state |-> ""]
Status(s) == [kind |-> "status", id |-> NoId, state |-> s]
\* a status object that holds a 'status' key beside 'state'
StatusWith(s, t) == [kind |-> "status", id |-> NoId, state |-> s, status |-> t]
Truthy(v) == v.kind \in {"handle", "status"}

PostOutcomes == {Raise, None} \cup (IF next_id <= MaxOps THEN {Handle(next_id)} ELSE {})
GetOutcomes ==
    {Raise, None} \cup {Status(s) : s \in States}
        \cup {StatusWith(s, t) : s \in States, t \in States}

\* ------------------------------------------------------- report normalizer
MaxSteps == 2       \* longest step list of one agent in a report
Agents == {"agent-1", "agent-2"}
StatusCodes == {0, 1, 124, 2}       \* 2: a code STATUS_CODES does not hold
TaskNames == {"t1", "t2"}

\* STATUS_CODES, lines 23-27
STATUS_CODES == (0 :> "Fail") @@ (1 :> "Pass") @@ (124 :> "Pass")

Steps == [status : StatusCodes, name : TaskNames, description : {"d"}]
StepLists == SeqsUpTo(Steps, MaxSteps)

\* a report: without a steps key, with a steps value that is no mapping, or with
\* a mapping from agents to {'steps': [...]}
ReportWith(kind, m) == [steps_kind |-> kind, steps |-> m]
Reports ==
    {ReportWith("absent", <<>>), ReportWith("list", <<>>)}
        \cup {ReportWith("mapping", m) :
                 m \in UNION {[A -> StepLists] : A \in SUBSET Agents}}
NoReport == ReportWith("absent", <<>>)
NotNormalized == [called |-> FALSE]

RECURSIVE SumOver(_, _)
SumOver(S, f) ==
    IF S = {} THEN 0
    ELSE LET x == CHOOSE y \in S : TRUE IN f[x] + SumOver(S \ {x}, f)

\* get_steps_key, lines 161-165: the keys, or None when the function falls off
\* its end
get_steps_key(report) ==
    IF report.steps_kind = "mapping"
    THEN [none |-> FALSE, keys |-> DOMAIN report.steps]
    ELSE [none |-> TRUE, keys |-> {}]

\* lines 176-179
success_increment(status) == IF status = 0 THEN 1 ELSE 0

\* a faulty variant: only code 1 counts as failed
failed_increment_only_1(status) == IF status = 1 THEN 1 ELSE 0

failed_increment(status) == IF status = 0 THEN 0 ELSE 1

\* lines 181-185
StepResult(s) ==
    [Status |-> STATUS_CODES[s.status], Task |-> s.name, Description |-> s.description]

\* normalize_report_json, lines 167-190.  Iterating None (line 172) raises
\* TypeError, a status code outside STATUS_CODES raises KeyError (line 182).
normalize_report_json(report) ==
    LET agents == get_steps_key(report)
        st == report.steps
        bad == \E a \in agents.keys : \E i \in 1..Len(st[a]) :
                   st[a][i].status \notin DOMAIN STATUS_CODES
        tally(inc(_)) ==
            SumOver(agents.keys,
                    [a \in agents.keys |->
                        SumOver(1..Len(st[a]),
                                [i \in 1..Len(st[a]) |-> inc(st[a][i].status)])])
        success == tally(success_increment)
        failed == tally(failed_increment)
    IN IF agents.none \/ bad
       THEN [called |-> TRUE, raised |-> TRUE, result |-> <<>>, success |-> 0,
             failed |-> 0, successful |-> [num |-> 0, den |-> 1]]
       ELSE [called |-> TRUE, raised |-> FALSE,
             result |-> [a \in {b \in agents.keys : st[b] # <<>>} |->
                            [i \in 1..Len(st[a]) |-> StepResult(st[a][i])]],
             success |-> success,
             failed |-> failed,
             successful |-> IF failed = 0 THEN [num |-> 100, den |-> 1]
                            ELSE [num |-> success, den |-> failed]]

\* ------------------------------------------------------------ py_caldera.py
\* no check_operation_run call was the tracker's last call
NoPoll == [id |-> NoId, result |-> None, before |-> <<>>, artifact_before |-> NoId]

\* get_operation_report for every tracked handle (run_operation, lines 144-145)
Report(operation_id, enable_agent_output) ==
    [id |-> operation_id, enable_agent_output |-> enable_agent_output]

ReportsOf(wr) == [i \in 1..Len(wr) |-> Report(wr[i].id, TRUE)]

\* run_operation: the value the call produces for the result op of rest_post.
\* The function has no return statement.
run_operation_returns(op) == IF op.kind = "raise" THEN Raise ELSE None

\* a faulty variant: the created operation is appended twice
run_operation_appends_twice(op) ==
    LET wr == IF Truthy(op) THEN Append(Append(waiting_responses, op), op)
              ELSE waiting_responses
    IN /\ waiting_responses' = wr
       /\ next_id' = IF Truthy(op) THEN next_id + 1 ELSE next_id
       /\ new_operation' = IF Truthy(op) THEN op ELSE new_operation
       /\ report_log' = IF op.kind = "raise" THEN <<>> ELSE ReportsOf(wr)
       /\ last_poll' = NoPoll
       /\ UNCHANGED complete_operation

\* run_operation: its effect on the tracker for the result op of rest_post
run_operation(op) ==
    LET wr == IF Truthy(op) THEN Append(waiting_responses, op) ELSE waiting_responses
    IN /\ waiting_responses' = wr
       /\ next_id' = IF Truthy(op) THEN next_id + 1 ELSE next_id
       /\ new_operation' = IF Truthy(op) THEN op ELSE new_operation
       /\ report_log' = IF op.kind = "raise" THEN <<>> ELSE ReportsOf(wr)
       /\ last_poll' = NoPoll
       /\ UNCHANGED complete_operation

\* check_operation_run, lines 198-202: the 0-based index of the first handle with
\* this id, 0 when there is none
response_index(wr, operation_id) ==
    IF \E i \in 1..Len(wr) : wr[i].id = operation_id
    THEN (CHOOSE i \in 1..Len(wr) :
             /\ wr[i].id = operation_id
             /\ \A j \in 1..(i - 1) : wr[j].id # operation_id) - 1
    ELSE 0

\* del waiting_responses[k], k 0-based
Del(wr, k) == [i \in 1..(Len(wr) - 1) |-> IF i <= k THEN wr[i] ELSE wr[i + 1]]

\* a faulty variant: the element at response_index is deleted without the test
\* of line 203, so a poll that matches nothing deletes the head of the list
Pruned_Unconditional(wr, operation_id) ==
    IF wr = <<>> THEN wr ELSE Del(wr, response_index(wr, operation_id))

\* check_operation_run, lines 203-204
Pruned(wr, operation_id) ==
    LET k == response_index(wr, operation_id)
    IN IF k # 0 THEN Del(wr, k) ELSE wr

\* a faulty variant: every state other than running captures the report
CapturesReport_AnyTerminal(state) == state # "running"

\* check_operation_run, line 205: the states that capture the report
CapturesReport(state) == state = "finished"

\* check_operation_run(operation_id, run_type) for the result checkup of rest_get
check_operation_run(operation_id, checkup) ==
    LET pruning == Truthy(checkup) /\ checkup.state # "running"
        capture == pruning /\ CapturesReport(checkup.state)
    IN /\ waiting_responses' =
              IF pruning THEN Pruned(waiting_responses, operation_id)
              ELSE waiting_responses
       /\ report_log' = IF capture THEN <<Report(operation_id, TRUE)>> ELSE <<>>
       /\ complete_operation' = IF capture THEN operation_id ELSE complete_operation
       /\ last_poll' = [id |-> operation_id, result |-> checkup,
                        before |-> waiting_responses,
                        artifact_before |-> complete_operation]
       /\ UNCHANGED <<next_id, new_operation>>

\* -------------------------------------------------------- service_script.py
\* post_caldera_status: the payload posted to /caldera.  The function catches
\* every exception of the request, so the caller goes on either way.
Payload(operation_name, operation_id, status) ==
    [session_id |-> session_id, operation_name |-> operation_name,
     operation_id |-> operation_id, status |-> status]

post_caldera_status(operation_name, operation_id, status) ==
    /\ relays' = Append(relays, Payload(operation_name, operation_id, status))
    /\ last_relayed' = [i \in Ids |-> IF i = operation_id THEN status
                                      ELSE last_relayed[i]]

\* run_operation's request body as main builds it (group = a.get('group', ''))
Request(a) ==
    [name |-> a.operation_name, adversary_id |-> a.adversary,
     group |-> IF a.group = Absent THEN "" ELSE a.group]

\* a faulty variant: no handler around the tick, the exception ends main()
main_except_escapes == "exited"

\* main, lines 185-189: where an exception raised inside the try block leads
main_except == "sleep"

\* the for loop moves on to the next action, or the tick ends
NextItem ==
    /\ idx' = idx + 1
    /\ pc' = IF idx + 1 > Len(actions) THEN "sleep" ELSE "dispatch"

IsRun(a) == a.service = "caldera" /\ a.task = "run_operation"
IsCheck(a) == a.service = "caldera" /\ a.task = "check_operation"

\* a faulty variant: no except clause, the exception leaves the wrapper
retry_after_call_uncaught(r) ==
    IF r.kind = "raise" \/ Truthy(r)
    THEN /\ retry_ret' = r
         /\ pc' = "retry_done"
    ELSE /\ retry_ret' = retry_ret
         /\ pc' = "retry_sleep"

\* a faulty variant: the successful response is not returned
retry_after_call_noreturn(r) ==
    /\ retry_ret' = retry_ret
    /\ pc' = "retry_sleep"

\* retry_run_operation, lines 50-56: one pass of the loop body after run_operation
\* produced r (a value or an exception)
retry_after_call(r) ==
    IF r.kind # "raise" /\ Truthy(r)
    THEN /\ retry_ret' = r
         /\ pc' = "retry_done"
    ELSE /\ retry_ret' = retry_ret
         /\ pc' = "retry_sleep"

\* retry_run_operation, lines 56-57 and the loop test of line 49
retry_sleep ==
    /\ pc = "retry_sleep"
    /\ sleeps' = sleeps + 1
    /\ attempt' = attempt + 1
    /\ IF attempt + 1 < retries
       THEN /\ pc' = "retry_call"
            /\ retry_ret' = retry_ret
       ELSE /\ pc' = "retry_done"
            /\ retry_ret' = None
    /\ UNCHANGED <<interrupted, actions, idx, tick_vars, retries, calls, script,
                   tracker_vars>>
    /\ UNCHANGED <<last_relayed, normalize_vars>>

\* a faulty variant: the probe's status code is not tested
Probe_NoStatusCheck ==
    /\ pc = "probe"
    /\ \E r \in {"200", "500", "error"} :
          /\ probe_status' = r
          /\ pc' = IF r = "error" THEN main_except ELSE "plan"
          /\ caught' = (r = "error")
    /\ UNCHANGED <<interrupted, actions, idx, plan_fetches, visited, creates, relays,
                   polls, created, retry_vars, tracker_vars>>
    /\ UNCHANGED <<last_relayed, normalize_vars>>

\* Step 1, lines 121-125 and 182-186
Probe ==
    /\ pc = "probe"
    /\ \E r \in {"200", "500", "error"} :
          /\ probe_status' = r
          /\ pc' = CASE r = "200" -> "plan"
                     [] r = "500" -> "sleep"
                     [] OTHER -> main_except
          /\ caught' = (r = "error")
    /\ UNCHANGED <<interrupted, actions, idx, plan_fetches, visited, creates, relays,
                   polls, created, retry_vars, tracker_vars>>
    /\ UNCHANGED <<last_relayed, normalize_vars>>

\* Step 2, lines 127-139 and 180-181
FetchPlan ==
    /\ pc = "plan"
    /\ plan_fetches' = plan_fetches + 1
    /\ \/ \* the request raises, or post_response.json() does
          /\ pc' = main_except
          /\ caught' = TRUE
          /\ UNCHANGED <<actions, idx>>
       \/ \* a status other than 200; or a body without an actions list
          /\ pc' = "sleep"
          /\ UNCHANGED <<actions, idx, caught>>
       \/ \E p \in Plans :
             /\ actions' = p
             /\ idx' = 1
             /\ pc' = IF p = <<>> THEN "sleep" ELSE "dispatch"
             /\ UNCHANGED caught
    /\ UNCHANGED <<interrupted, probe_status, visited, creates, relays, polls, created,
                   retry_vars, tracker_vars>>
    /\ UNCHANGED <<last_relayed, normalize_vars>>

\* a faulty variant: no test for the service key, a['service'] raises KeyError
SkipNoService_KeyError ==
    /\ pc = "dispatch"
    /\ actions[idx].service = Absent
    /\ visited' = visited \cup {idx}
    /\ pc' = main_except
    /\ caught' = TRUE
    /\ UNCHANGED <<interrupted, actions, idx, probe_status, plan_fetches, creates,
                   relays, polls, created, retry_vars, tracker_vars>>
    /\ UNCHANGED <<last_relayed, normalize_vars>>

\* lines 141-142
SkipNoService ==
    /\ pc = "dispatch"
    /\ actions[idx].service = Absent
    /\ visited' = visited \cup {idx}
    /\ NextItem
    /\ UNCHANGED <<interrupted, actions, probe_status, plan_fetches, creates, relays,
                   polls, created, caught, retry_vars, tracker_vars>>
    /\ UNCHANGED <<last_relayed, normalize_vars>>

\* lines 143 and 162: a['task'] of an item without a task raises KeyError, which
\* only the handler of line 185 catches
TaskKeyError ==
    /\ pc = "dispatch"
    /\ actions[idx].service = "caldera"
    /\ actions[idx].task = Absent
    /\ visited' = visited \cup {idx}
    /\ pc' = main_except
    /\ caught' = TRUE
    /\ UNCHANGED <<interrupted, actions, idx, probe_status, plan_fetches, creates,
                   relays, polls, created, retry_vars, tracker_vars>>
    /\ UNCHANGED <<last_relayed, normalize_vars>>

\* lines 143 and 162: neither branch matches
Ignore ==
    /\ pc = "dispatch"
    /\ actions[idx].service # Absent
    /\ \/ actions[idx].service # "caldera"
       \/ actions[idx].task \notin {Absent, "run_operation", "check_operation"}
    /\ visited' = visited \cup {idx}
    /\ NextItem
    /\ UNCHANGED <<interrupted, actions, probe_status, plan_fetches, creates, relays,
                   polls, created, caught, retry_vars, tracker_vars>>
    /\ UNCHANGED <<last_relayed, normalize_vars>>

\* a faulty variant: the parameters are not validated, the wrapper is called
RunInvalid_NoValidation ==
    /\ pc = "dispatch"
    /\ IsRun(actions[idx])
    /\ \/ actions[idx].adversary = Absent
       \/ actions[idx].operation_name = Absent
    /\ visited' = visited \cup {idx}
    /\ pc' = "retry_call"
    /\ retries' = DefaultRetries
    /\ attempt' = 0
    /\ sleeps' = 0
    /\ calls' = 0
    /\ retry_ret' = None
    /\ UNCHANGED <<interrupted, actions, idx, probe_status, plan_fetches, creates,
                   relays, polls, created, caught, script, tracker_vars>>
    /\ UNCHANGED <<last_relayed, normalize_vars>>

\* lines 144-150
RunInvalid ==
    /\ pc = "dispatch"
    /\ IsRun(actions[idx])
    /\ \/ actions[idx].adversary = Absent
       \/ actions[idx].operation_name = Absent
    /\ visited' = visited \cup {idx}
    /\ NextItem
    /\ UNCHANGED <<interrupted, actions, probe_status, plan_fetches, creates, relays,
                   polls, created, caught, retry_vars, tracker_vars>>
    /\ UNCHANGED <<last_relayed, normalize_vars>>

\* lines 144-153: the call of retry_run_operation begins
RunStart ==
    /\ pc = "dispatch"
    /\ IsRun(actions[idx])
    /\ actions[idx].adversary # Absent
    /\ actions[idx].operation_name # Absent
    /\ visited' = visited \cup {idx}
    /\ pc' = "retry_call"
    /\ retries' = DefaultRetries
    /\ attempt' = 0
    /\ sleeps' = 0
    /\ calls' = 0
    /\ retry_ret' = None
    /\ UNCHANGED <<interrupted, actions, idx, probe_status, plan_fetches, creates,
                   relays, polls, created, caught, script, tracker_vars>>
    /\ UNCHANGED <<last_relayed, normalize_vars>>

\* retry_run_operation, lines 50-55, with run_operation of py_caldera.py
RetryCall ==
    /\ pc = "retry_call"
    /\ \E op \in PostOutcomes :
          /\ run_operation(op)
          /\ retry_after_call(run_operation_returns(op))
          /\ created' = IF Truthy(op) THEN Append(created, op.id) ELSE created
    /\ calls' = calls + 1
    /\ creates' = Append(creates, Request(actions[idx]))
    /\ UNCHANGED <<interrupted, actions, idx, probe_status, plan_fetches, visited,
                   relays, polls, caught, retries, attempt, sleeps, script>>
    /\ UNCHANGED <<last_relayed, normalize_vars>>

RetrySleep == retry_sleep

\* a faulty variant: a failed start is reported upstream too
AfterRetry_RelaysFailure ==
    /\ pc = "retry_done"
    /\ IF Truthy(retry_ret)
       THEN post_caldera_status(actions[idx].operation_name, retry_ret.id, "started")
       ELSE post_caldera_status(actions[idx].operation_name, NoId, "failed")
    /\ NextItem
    /\ UNCHANGED <<interrupted, actions, probe_status, plan_fetches, visited, creates,
                   polls, created, caught, retry_vars, tracker_vars>>
    /\ UNCHANGED normalize_vars

\* lines 154-161
AfterRetry ==
    /\ pc = "retry_done"
    /\ IF Truthy(retry_ret)
       THEN post_caldera_status(actions[idx].operation_name, retry_ret.id, "started")
       ELSE UNCHANGED <<relays, last_relayed>>
    /\ NextItem
    /\ UNCHANGED <<interrupted, actions, probe_status, plan_fetches, visited, creates,
                   polls, created, caught, retry_vars, tracker_vars>>
    /\ UNCHANGED normalize_vars

\* lines 163-167
CheckInvalid ==
    /\ pc = "dispatch"
    /\ IsCheck(actions[idx])
    /\ actions[idx].operation_id = NoId
    /\ visited' = visited \cup {idx}
    /\ NextItem
    /\ UNCHANGED <<interrupted, actions, probe_status, plan_fetches, creates, relays,
                   polls, created, caught, retry_vars, tracker_vars>>
    /\ UNCHANGED <<last_relayed, normalize_vars>>

\* line 172: response.get('status')
status_of(response) ==
    IF "status" \in DOMAIN response THEN response.status ELSE Absent

\* lines 170-176 for a call of check_operation_run that binds its parameters
check_bound ==
    \E checkup \in GetOutcomes :
        /\ polls' = Append(polls, [id |-> actions[idx].operation_id,
                                    result |-> checkup])
        /\ check_operation_run(actions[idx].operation_id, checkup)
        /\ IF Truthy(checkup)
           THEN post_caldera_status(actions[idx].operation_name,
                                    actions[idx].operation_id, status_of(checkup))
           ELSE UNCHANGED <<relays, last_relayed>>

\* lines 169-178: check_operation_run is called with MainCheckArgs arguments and
\* takes CheckOperationRunParams; a call that does not bind raises TypeError
\* before the body runs, and line 177 catches it
CheckCall ==
    /\ pc = "dispatch"
    /\ IsCheck(actions[idx])
    /\ actions[idx].operation_id # NoId
    /\ visited' = visited \cup {idx}
    /\ IF MainCheckArgs # CheckOperationRunParams
       THEN UNCHANGED <<polls, relays, last_relayed, tracker_vars>>
       ELSE check_bound
    /\ NextItem
    /\ UNCHANGED <<interrupted, actions, probe_status, plan_fetches, creates, created,
                   caught, retry_vars>>
    /\ UNCHANGED normalize_vars

\* line 189: time.sleep(CHECK_INTERVAL), then the next iteration
Sleep ==
    /\ pc = "sleep"
    /\ pc' = "probe"
    /\ actions' = <<>>
    /\ idx' = 1
    /\ probe_status' = "none"
    /\ plan_fetches' = 0
    /\ visited' = {}
    /\ creates' = <<>>
    /\ relays' = <<>>
    /\ polls' = <<>>
    /\ created' = <<>>
    /\ caught' = FALSE
    /\ UNCHANGED <<interrupted, retry_vars, tracker_vars>>
    /\ UNCHANGED <<last_relayed, normalize_vars>>

\* signal_handler, lines 88-93: SIGINT ends the process wherever main() is
Interrupt ==
    /\ pc # "exited"
    /\ pc' = "exited"
    /\ interrupted' = TRUE
    /\ UNCHANGED <<actions, idx, tick_vars, retry_vars, tracker_vars>>
    /\ UNCHANGED <<last_relayed, normalize_vars>>

\* main after lines 96-117 succeeded, py_caldera after import
Init ==
    /\ pc = "probe"
    /\ interrupted = FALSE
    /\ actions = <<>>
    /\ idx = 1
    /\ probe_status = "none"
    /\ plan_fetches = 0
    /\ visited = {}
    /\ creates = <<>>
    /\ relays = <<>>
    /\ polls = <<>>
    /\ created = <<>>
    /\ caught = FALSE
    /\ retries = DefaultRetries
    /\ attempt = 0
    /\ sleeps = 0
    /\ calls = 0
    /\ retry_ret = None
    /\ script = <<>>
    /\ waiting_responses = <<>>
    /\ next_id = 1
    /\ report_log = <<>>
    /\ new_operation = None
    /\ complete_operation = NoId
    /\ last_poll = NoPoll
    /\ last_relayed = [i \in Ids |-> Absent]
    /\ report_json = NoReport
    /\ normalized = NotNormalized

LoopStep ==
    \/ Probe
    \/ FetchPlan
    \/ SkipNoService
    \/ TaskKeyError
    \/ Ignore
    \/ RunInvalid
    \/ RunStart
    \/ RetryCall
    \/ RetrySleep
    \/ AfterRetry
    \/ CheckInvalid
    \/ CheckCall
    \/ Sleep

Next == LoopStep \/ Interrupt

Spec == Init /\ [][Next]_vars

\* ------------------------------------------------- the retry wrapper alone
\* retry_run_operation around a stubbed creation function whose result at each
\* call is scripted: it raises, returns an empty value, or returns an operation.
StubResults == {Raise, None, Handle(1)}

InitRetry ==
    /\ pc = "retry_call"
    /\ retries \in 1..MaxRetries
    /\ script \in [1..retries -> StubResults]
    /\ interrupted = FALSE
    /\ actions = <<>>
    /\ idx = 1
    /\ probe_status = "none"
    /\ plan_fetches = 0
    /\ visited = {}
    /\ creates = <<>>
    /\ relays = <<>>
    /\ polls = <<>>
    /\ created = <<>>
    /\ caught = FALSE
    /\ attempt = 0
    /\ sleeps = 0
    /\ calls = 0
    /\ retry_ret = None
    /\ waiting_responses = <<>>
    /\ next_id = 1
    /\ report_log = <<>>
    /\ new_operation = None
    /\ complete_operation = NoId
    /\ last_poll = NoPoll
    /\ last_relayed = [i \in Ids |-> Absent]
    /\ report_json = NoReport
    /\ normalized = NotNormalized

\* retry_run_operation, lines 50-55, with the stub for run_operation
StubCall ==
    /\ pc = "retry_call"
    /\ retry_after_call(script[calls + 1])
    /\ calls' = calls + 1
    /\ UNCHANGED <<interrupted, actions, idx, tick_vars, retries, attempt, sleeps,
                   script, tracker_vars>>
    /\ UNCHANGED <<last_relayed, normalize_vars>>

NextRetry == StubCall \/ RetrySleep

SpecRetry == InitRetry /\ [][NextRetry]_vars

\* ------------------------------------------------------- the tracker alone
\* run_operation and check_operation_run called as functions of py_caldera, the
\* latter with both of its parameters.
InitTracker ==
    /\ pc = "tracker"
    /\ interrupted = FALSE
    /\ actions = <<>>
    /\ idx = 1
    /\ probe_status = "none"
    /\ plan_fetches = 0
    /\ visited = {}
    /\ creates = <<>>
    /\ relays = <<>>
    /\ polls = <<>>
    /\ created = <<>>
    /\ caught = FALSE
    /\ retries = DefaultRetries
    /\ attempt = 0
    /\ sleeps = 0
    /\ calls = 0
    /\ retry_ret = None
    /\ script = <<>>
    /\ waiting_responses = <<>>
    /\ next_id = 1
    /\ report_log = <<>>
    /\ new_operation = None
    /\ complete_operation = NoId
    /\ last_poll = NoPoll
    /\ last_relayed = [i \in Ids |-> Absent]
    /\ report_json = NoReport
    /\ normalized = NotNormalized

TrRun ==
    /\ pc = "tracker"
    /\ \E op \in PostOutcomes : run_operation(op)
    /\ UNCHANGED <<loop_vars, tick_vars, retry_vars>>
    /\ UNCHANGED <<last_relayed, normalize_vars>>

TrPoll ==
    /\ pc = "tracker"
    /\ \E operation_id \in Ids, checkup \in GetOutcomes :
          check_operation_run(operation_id, checkup)
    /\ UNCHANGED <<loop_vars, tick_vars, retry_vars>>
    /\ UNCHANGED <<last_relayed, normalize_vars>>

NextTracker == TrRun \/ TrPoll

SpecTracker == InitTracker /\ [][NextTracker]_vars

\* the loop keeps taking steps as long as the process is not interrupted
FairSpec == Init /\ [][Next]_vars /\ WF_vars(LoopStep)

\* ------------------------------------------------------------------ claims
Count(q, P(_)) == Cardinality({i \in 1..Len(q) : P(q[i])})

TickDone == pc = "sleep"

\* C1: in a tick whose probe returns 200 and whose plan is the single action
\* caldera/run_operation/adv-1/Op1, exactly one creation attempt is made, with
\* name Op1, adversary adv-1 and group "", and when a creation succeeded exactly
\* one relay with status "started" is sent.
C1_OneCreationOneStarted ==
    (TickDone /\ probe_status = "200" /\ actions = <<RunOp1>>) =>
        /\ creates = <<[name |-> "Op1", adversary_id |-> "adv-1", group |-> ""]>>
        /\ (created # <<>> =>
               Count(relays, LAMBDA r : r.status = "started") = 1)

\* C2: at the end of a tick, every visited caldera/check_operation action with an
\* operation_id had the tracker poll run for that id, and each poll whose status
\* fetch succeeded is matched by exactly one relay with that session, name and id.
C2_CheckPollsAndRelays ==
    TickDone =>
        \A i \in visited :
            (IsCheck(actions[i]) /\ actions[i].operation_id # NoId) =>
                /\ \E k \in 1..Len(polls) : polls[k].id = actions[i].operation_id
                /\ Count(relays, LAMBDA r :
                        /\ r.session_id = session_id
                        /\ r.operation_id = actions[i].operation_id
                        /\ r.status # "started")
                   = Count(polls, LAMBDA q :
                        q.id = actions[i].operation_id /\ Truthy(q.result))

\* C3: after check_operation_run(id) observed a state other than running, no
\* handle with that id is tracked.
C3_PollPrunes ==
    (last_poll.id # NoId /\ Truthy(last_poll.result)
        /\ last_poll.result.state # "running") =>
        \A i \in 1..Len(waiting_responses) : waiting_responses[i].id # last_poll.id

\* C4: the loop ends only by the interrupt; from every position it reaches the
\* sleep step, and from the sleep step the next probe, unless interrupted.
C4_LoopNeverStops ==
    /\ [](pc = "exited" => interrupted)
    /\ [](pc # "exited" => <>(pc \in {"sleep", "exited"}))
    /\ [](pc = "sleep" => <>(pc \in {"probe", "exited"}))

\* a tick that an exception abandoned has reached the sleep step
C4_Witness == pc = "sleep" /\ caught /\ ~interrupted

\* C5: at the end of a tick that fetched a plan, every action of the list was
\* visited, whatever happened to the actions before it.
C5_FailuresIsolated ==
    TickDone => visited = 1..Len(actions)

AllFail(q) == \A k \in 1..Len(q) : ~Truthy(q[k])

\* C6: with retries = 3 and a creation function that fails at every call, the
\* wrapper calls it exactly 3 times, never raises, and returns None.
C6_AlwaysFailing ==
    (retries = 3 /\ AllFail(script)) =>
        /\ retry_ret.kind # "raise"
        /\ calls <= 3
        /\ (pc = "retry_done" => calls = 3 /\ retry_ret = None)

C6_Witness ==
    /\ pc = "retry_done"
    /\ script = <<Raise, None, Raise>>
    /\ calls = 3

\* C7: with retries = 3 and a creation function that fails twice and then
\* succeeds, the wrapper returns the result of the third call, makes no call
\* after it, and sleeps exactly twice.
C7_FailTwiceThenSucceed ==
    (retries = 3 /\ AllFail(SubSeq(script, 1, 2)) /\ Truthy(script[3])) =>
        /\ calls <= 3
        /\ sleeps <= 2
        /\ (pc = "retry_done" =>
               retry_ret = script[3] /\ calls = 3 /\ sleeps = 2)

C7_Witness ==
    /\ pc = "retry_done"
    /\ script = <<Raise, None, Handle(1)>>
    /\ retry_ret = Handle(1)

\* C8: in a tick whose probe returned a status other than 200 or failed, no plan
\* is fetched, no action is visited, nothing is created, polled or relayed, and
\* the tick is at the sleep step.
C8_NoPlanAfterFailedProbe ==
    probe_status \in {"500", "error"} =>
        /\ plan_fetches = 0
        /\ visited = {}
        /\ creates = <<>> /\ polls = <<>> /\ relays = <<>>
        /\ pc \in {"sleep", "exited"}

C8_Witness == pc = "sleep" /\ probe_status = "500"

\* C9: the step that handles an action without a service key creates, polls and
\* relays nothing, raises nothing, leaves the tracker alone, and moves on to the
\* next action of the list (or ends the tick after the last one).
C9_NoServiceSkipped ==
    [][(pc = "dispatch" /\ actions[idx].service = Absent /\ pc' # "exited") =>
          /\ creates' = creates /\ polls' = polls /\ relays' = relays
          /\ tracker_vars' = tracker_vars
          /\ caught' = caught
          /\ idx' = idx + 1
          /\ pc' = IF idx + 1 > Len(actions) THEN "sleep" ELSE "dispatch"]_vars

\* a tick went past an action without service and ran the action after it
C9_Witness ==
    /\ TickDone
    /\ actions = <<NoService, RunOp1>>
    /\ visited = {1, 2}
    /\ Len(creates) = 3
    /\ ~caught

TrackedIds(wr) == {wr[i].id : i \in 1..Len(wr)}

C12_OneHandlePerId ==
    \A i, j \in 1..Len(waiting_responses) :
        waiting_responses[i].id = waiting_responses[j].id => i = j

\* several handles are tracked after registrations and a poll that pruned one
C12_Witness ==
    /\ Len(waiting_responses) >= 2
    /\ last_poll.id # NoId
    /\ Len(last_poll.before) > Len(waiting_responses)

\* C17: a run_operation call that registers an operation issues exactly one
\* report request, for that operation, however many handles are tracked; a call
\* whose creation failed registers nothing.
C17_OneReportPerRegistration ==
    [][last_poll' = NoPoll =>
          IF next_id' = next_id + 1
          THEN /\ waiting_responses' = Append(waiting_responses, Handle(next_id))
               /\ report_log' = <<Report(next_id, TRUE)>>
          ELSE waiting_responses' = waiting_responses]_vars

\* C19: a finished retry_run_operation call that made k creation attempts slept
\* exactly k - 1 times.
C19_SleepsOnlyBetweenAttempts ==
    pc = "retry_done" =>
        /\ calls \in 1..retries
        /\ sleeps = calls - 1

\* C14: a relay is posted only by an action whose creation or poll succeeded: the
\* step that posts one either ends a retry_run_operation call that returned an
\* operation (status started, that operation's id) or ran a poll whose status
\* fetch succeeded for that id.  A wrapper that returned None, a poll that failed
\* or raised, post nothing.
C14_OnlySuccessesRelayed ==
    [][Len(relays') > Len(relays) =>
          /\ Len(relays') = Len(relays) + 1
          /\ SubSeq(relays', 1, Len(relays)) = relays
          /\ LET x == relays'[Len(relays')]
             IN \/ /\ pc = "retry_done"
                   /\ Truthy(retry_ret)
                   /\ x.operation_id = retry_ret.id
                   /\ x.status = "started"
                \/ /\ pc = "dispatch"
                   /\ IsCheck(actions[idx])
                   /\ Len(polls') = Len(polls) + 1
                   /\ polls'[Len(polls')].id = x.operation_id
                   /\ Truthy(polls'[Len(polls')].result)]_vars

\* the wrapper returned None for the only action of the tick, although the API
\* created operations, and the tick ended without a relay
C14_Witness ==
    /\ TickDone
    /\ actions = <<RunOp1>>
    /\ visited = {1}
    /\ calls = 3
    /\ retry_ret = None
    /\ created # <<>>
    /\ relays = <<>>

\* C18: the step that handles a run_operation action without adversary or
\* operation_name, or a check_operation action without operation_id, creates,
\* polls and relays nothing, leaves the tracker alone, raises nothing, and moves
\* on to the next action of the list (or ends the tick after the last one).
C18_InvalidActionSkipped ==
    [][(/\ pc = "dispatch"
        /\ \/ /\ IsRun(actions[idx])
              /\ (actions[idx].adversary = Absent
                    \/ actions[idx].operation_name = Absent)
           \/ /\ IsCheck(actions[idx])
              /\ actions[idx].operation_id = NoId
        /\ pc' # "exited") =>
          /\ creates' = creates /\ polls' = polls /\ relays' = relays
          /\ tracker_vars' = tracker_vars
          /\ caught' = caught
          /\ idx' = idx + 1
          /\ pc' = IF idx + 1 > Len(actions) THEN "sleep" ELSE "dispatch"]_vars

\* a tick went past an invalid action and ran the run_operation action after it
C18_Witness ==
    /\ TickDone
    /\ Len(actions) = 2
    /\ actions[1] \in {RunNoAdversary, RunNoName, CheckNoId}
    /\ actions[2] = RunOp1
    /\ visited = {1, 2}
    /\ creates = <<Request(RunOp1), Request(RunOp1), Request(RunOp1)>>
    /\ ~caught

\* ---------------------------------------------------- the normalizer alone
InitNormalize ==
    /\ pc = "normalize"
    /\ report_json \in Reports
    /\ normalized = NotNormalized
    /\ interrupted = FALSE
    /\ actions = <<>>
    /\ idx = 1
    /\ probe_status = "none"
    /\ plan_fetches = 0
    /\ visited = {}
    /\ creates = <<>>
    /\ relays = <<>>
    /\ polls = <<>>
    /\ created = <<>>
    /\ caught = FALSE
    /\ retries = DefaultRetries
    /\ attempt = 0
    /\ sleeps = 0
    /\ calls = 0
    /\ retry_ret = None
    /\ script = <<>>
    /\ waiting_responses = <<>>
    /\ next_id = 1
    /\ report_log = <<>>
    /\ new_operation = None
    /\ complete_operation = NoId
    /\ last_poll = NoPoll
    /\ last_relayed = [i \in Ids |-> Absent]

Normalize ==
    /\ pc = "normalize"
    /\ normalized' = normalize_report_json(report_json)
    /\ pc' = "normalized"
    /\ UNCHANGED <<interrupted, actions, idx, tick_vars, retry_vars, tracker_vars,
                   last_relayed, report_json>>

NextNormalize == Normalize

SpecNormalize == InitNormalize /\ [][NextNormalize]_vars

\* C15: normalize_report_json on a report without a steps key, or whose steps
\* value is no mapping, does not fail and returns an empty per-agent mapping and
\* the ratio 100.
C15_NormalizeWithoutSteps ==
    (pc = "normalized" /\ report_json.steps_kind # "mapping") =>
        /\ ~normalized.raised
        /\ DOMAIN normalized.result = {}
        /\ normalized.successful = [num |-> 100, den |-> 1]

WellFormed(report) ==
    /\ report.steps_kind = "mapping"
    /\ \A a \in DOMAIN report.steps : \A i \in 1..Len(report.steps[a]) :
           report.steps[a][i].status \in {0, 1, 124}

TotalSteps(report) ==
    SumOver(DOMAIN report.steps, [a \in DOMAIN report.steps |-> Len(report.steps[a])])

\* the result sequence of an agent; an agent without steps gets no key in the
\* result and counts as the empty sequence
ResultOf(out, a) == IF a \in DOMAIN out.result THEN out.result[a] ELSE <<>>

\* C16: for a well-formed report the two tallies add up to the number of steps of
\* all agents, and each agent's result sequence has the length of its step list
\* and holds, position by position, that step's label, task and description.
C16_TalliesCoverEveryStep ==
    (pc = "normalized" /\ WellFormed(report_json)) =>
        /\ ~normalized.raised
        /\ normalized.success + normalized.failed = TotalSteps(report_json)
        /\ \A a \in DOMAIN report_json.steps :
              /\ Len(ResultOf(normalized, a)) = Len(report_json.steps[a])
              /\ \A i \in 1..Len(report_json.steps[a]) :
                    LET step == report_json.steps[a][i]
                        res == ResultOf(normalized, a)[i]
                    IN /\ res.Task = step.name
                       /\ res.Description = step.description
                       /\ res.Status = IF step.status = 0 THEN "Fail" ELSE "Pass"

\* two agents, each with two steps, among them codes 0, 1 and 124
C16_Witness ==
    /\ pc = "normalized"
    /\ WellFormed(report_json)
    /\ DOMAIN report_json.steps = Agents
    /\ \A a \in Agents : Len(report_json.steps[a]) = 2
    /\ \A c \in {0, 1, 124} : \E a \in Agents, i \in 1..2 :
           report_json.steps[a][i].status = c
    /\ normalized.success >= 1
    /\ normalized.failed >= 2

\* ------------------------------- the loop with a check call that binds
\* main() as written, except that the call of line 170 binds the parameters of
\* check_operation_run, so that lines 171-176 run on what the tracker returns.
CheckCallBound ==
    /\ pc = "dispatch"
    /\ IsCheck(actions[idx])
    /\ actions[idx].operation_id # NoId
    /\ visited' = visited \cup {idx}
    /\ check_bound
    /\ NextItem
    /\ UNCHANGED <<interrupted, actions, probe_status, plan_fetches, creates, created,
                   caught, retry_vars>>
    /\ UNCHANGED normalize_vars

NextCheck ==
    \/ Probe
    \/ FetchPlan
    \/ SkipNoService
    \/ TaskKeyError
    \/ Ignore
    \/ RunInvalid
    \/ RunStart
    \/ RetryCall
    \/ RetrySleep
    \/ AfterRetry
    \/ CheckInvalid
    \/ CheckCallBound
    \/ Sleep

SpecCheck == Init /\ [][NextCheck]_vars

\* C13: every observed transition is relayed exactly once.  A tick ends with
\* exactly one "started" relay for each operation the API created in it; a poll
\* whose status fetch succeeded posts one relay carrying the observed state when
\* that state differs from the status last relayed for the operation, and posts
\* nothing when it is the same.
C13_OneRelayPerTransition ==
    [][/\ (pc # "sleep" /\ pc' = "sleep") =>
              \A k \in 1..Len(created') :
                  Count(relays', LAMBDA r : /\ r.operation_id = created'[k]
                                            /\ r.status = "started") = 1
       /\ Len(polls') > Len(polls) =>
              LET q == polls'[Len(polls')]
              IN Truthy(q.result) =>
                     IF q.result.state # last_relayed[q.id]
                     THEN relays' = Append(relays,
                              Payload(actions[idx].operation_name, q.id,
                                      q.result.state))
                     ELSE relays' = relays]_vars

====
